---------------------------- MODULE Spec2Model ----------------------------
(***************************************************************************)
(* Model of src/main.py: a command-line password generator.                *)
(*                                                                         *)
(* Characters are modelled by their ASCII codes, strings by sequences of   *)
(* codes.  A command-line token (the text given to --length) is a sequence *)
(* of one-character strings.  The file system maps a path to Absent or to  *)
(* the sequence of bytes the file holds.                                   *)
(*                                                                         *)
(* Two specifications:                                                     *)
(*   Spec     the process: main(argv) run MaxRuns times in a row on one    *)
(*            file system (a fresh process each time);                     *)
(*   SpecGen  generate_password called directly by a library caller, with  *)
(*            any integer length in -MaxLen..MaxLen.                       *)
(***************************************************************************)
EXTENDS Integers, Sequences, FiniteSets

(* ---------------------------- bounds ----------------------------------- *)

\* Longest password explored (the --length values above it are left out).
MaxLen == 2

\* Number of consecutive runs of the program on the same file system.
MaxRuns == 2

(* ------------------------ program constants ---------------------------- *)

DEFAULT_LENGTH == 12

\* Exit status of argparse's parser.error().
USAGE_ERROR == 2

\* "\n"
NEWLINE == 10

(* ----------------- string module (Python standard library) ------------- *)

ascii_lowercase ==
    [i \in 1..26 |-> 96 + i]

ascii_uppercase ==
    [i \in 1..26 |-> 64 + i]

\* string.ascii_letters = ascii_lowercase + ascii_uppercase
ascii_letters ==
    ascii_lowercase \o ascii_uppercase

\* string.digits = "0123456789"
digits ==
    [i \in 1..10 |-> 47 + i]

\* string.punctuation = !"#$%&'()*+,-./:;<=>?@[\]^_`{|}~
punctuation ==
    [i \in 1..15 |-> 32 + i] \o [i \in 1..7 |-> 57 + i]
        \o [i \in 1..6 |-> 90 + i] \o [i \in 1..4 |-> 122 + i]

(* --------------------------- pure functions ---------------------------- *)

\* "".join(parts) for a sequence of strings
RECURSIVE join(_)
join(parts) ==
    IF parts = <<>> THEN <<>> ELSE Head(parts) \o join(Tail(parts))

\* build_character_pool, ignoring its flags
build_character_pool_all(numbers, symbols) ==
    join(<<ascii_letters, digits, punctuation>>)

\* build_character_pool, appending the parts in another order
build_character_pool_reordered(numbers, symbols) ==
    join((IF symbols THEN <<punctuation>> ELSE <<>>)
         \o (IF numbers THEN <<digits>> ELSE <<>>)
         \o <<ascii_letters>>)

build_character_pool(numbers, symbols) ==
    LET pool_parts0 == <<ascii_letters>>
        pool_parts1 == IF numbers THEN Append(pool_parts0, digits)
                       ELSE pool_parts0
        pool_parts2 == IF symbols THEN Append(pool_parts1, punctuation)
                       ELSE pool_parts1
    IN  join(pool_parts2)

\* secrets.choice(seq) = seq[randbelow(len(seq))]; r is the value randbelow gave
choice(seq, r) ==
    seq[r + 1]

(* ------------------------- int() and positive_int ---------------------- *)

DigitChars == {"0", "1", "2", "3", "4", "5", "6", "7", "8", "9"}

DigitValue(c) ==
    CASE c = "0" -> 0 [] c = "1" -> 1 [] c = "2" -> 2 [] c = "3" -> 3
      [] c = "4" -> 4 [] c = "5" -> 5 [] c = "6" -> 6 [] c = "7" -> 7
      [] c = "8" -> 8 [] c = "9" -> 9

RECURSIVE DecimalValue(_)
DecimalValue(ds) ==
    IF ds = <<>> THEN 0
    ELSE 10 * DecimalValue(SubSeq(ds, 1, Len(ds) - 1)) + DigitValue(ds[Len(ds)])

\* int(value) on text made of a sign and decimal digits: a record with
\* raised = "ValueError", or the parsed integer.
int(value) ==
    LET signed == Len(value) > 0 /\ value[1] \in {"-", "+"}
        body   == IF signed THEN Tail(value) ELSE value
        sign   == IF signed /\ value[1] = "-" THEN -1 ELSE 1
    IN  IF body = <<>> \/ \E i \in 1..Len(body) : body[i] \notin DigitChars
        THEN [raised |-> "ValueError", value |-> 0]
        ELSE [raised |-> "none", value |-> sign * DecimalValue(body)]

\* positive_int without the range test
positive_int_no_range_test(value) ==
    LET parsed == int(value)
    IN  IF parsed.raised = "ValueError"
        THEN [raised |-> "ArgumentTypeError", value |-> 0]
        ELSE [raised |-> "none", value |-> parsed.value]

positive_int(value) ==
    LET parsed == int(value)
    IN  IF parsed.raised = "ValueError"
        THEN [raised |-> "ArgumentTypeError", value |-> 0]
        ELSE IF parsed.value < 1
        THEN [raised |-> "ArgumentTypeError", value |-> 0]
        ELSE [raised |-> "none", value |-> parsed.value]

(* ------------------------------ inputs --------------------------------- *)

\* None, the value of args.save when --save is not given
None == "<None>"

\* Paths given to --save: one the process may append to, one it may not
\* (a directory without write permission).
WritablePath == "out.txt"

UnwritablePath == "/ro/out.txt"

Paths == {WritablePath, UnwritablePath}

SaveArgs == {None, ""} \cup Paths

\* Texts given to --length: the decimal numerals 1..MaxLen and texts that
\* are zero, negative, signed, padded, empty or no integer at all.
Numeral(k) ==
    CASE k = 0 -> "0" [] k = 1 -> "1" [] k = 2 -> "2" [] k = 3 -> "3"
      [] k = 4 -> "4" [] k = 5 -> "5" [] k = 6 -> "6" [] k = 7 -> "7"
      [] k = 8 -> "8" [] k = 9 -> "9"

LengthTokens ==
    {<<Numeral(k)>> : k \in 0..MaxLen}
        \cup {<<"-", Numeral(k)>> : k \in 0..MaxLen}
        \cup {<<"0", "1">>, <<"+", "1">>, <<"0", "0">>, <<>>, <<"-">>,
              <<"x">>, <<"1", "x">>, <<"1", ".", "5">>}

\* The command lines explored.  --length absent (DEFAULT_LENGTH applies) is
\* explored only when the bound on the password's length admits it.
CommandLines ==
    [has_length : {TRUE}, length : LengthTokens,
     numbers : BOOLEAN, symbols : BOOLEAN, save : SaveArgs]
        \cup (IF DEFAULT_LENGTH <= MaxLen
              THEN [has_length : {FALSE}, length : {<<>>},
                    numbers : BOOLEAN, symbols : BOOLEAN, save : SaveArgs]
              ELSE {})

\* Values secrets.randbelow(n) can give
RandBelow(n) ==
    0..(n - 1)

\* The value of randbelow(n) explored in runs of the whole program (every
\* value is explored where generate_password is called directly)
SampledRandBelow(n) ==
    {n - 1}

Absent == [exists |-> FALSE, data |-> <<>>]

\* Contents of the writable file before the first run
InitialFiles ==
    {Absent, [exists |-> TRUE, data |-> <<120, NEWLINE>>]}

(* ------------------------------- state --------------------------------- *)

VARIABLES
    run,              \* number of the current run of the program
    pc,               \* position in main ("direct": no main, a library caller)
    argv,             \* the command line of this run
    args,             \* the Namespace parse_args returned
    gpc,              \* position in generate_password
    length,           \* generate_password's parameters
    include_numbers,
    include_symbols,
    character_pool,   \* generate_password's local
    password,         \* the characters joined so far, then the result
    stdout,           \* lines printed to standard output in this run
    stderr,           \* messages printed to standard error in this run
    fs,               \* the file system: path -> [exists, data]
    file_handle,      \* "none", "open" or "closed"
    apc,              \* position in append_password_to_file
    exit_code,        \* the process's exit status, NoExit while it runs
    calls,            \* calls of generate_password in this run
    saves,            \* calls of append_password_to_file in this run
    fs0,              \* history: the file system before the first run
    fsRun,            \* history: the file system when this run started
    log,              \* history: path -> the lines printed by the runs that
                      \*          saved to it without error, in run order
    torn              \* history: path -> a write to it has failed

vars ==
    <<run, pc, argv, args, gpc, length, include_numbers, include_symbols,
      character_pool, password, stdout, stderr, fs, file_handle, apc,
      exit_code, calls, saves, fs0, fsRun, log, torn>>

genVars ==
    <<gpc, length, include_numbers, include_symbols, character_pool, password>>

ioVars ==
    <<stdout, stderr, fs, file_handle, apc, log, torn>>

histVars ==
    <<run, fs0, fsRun>>

NoExit == -1

NoArgs == [length |-> 0, numbers |-> FALSE, symbols |-> FALSE, save |-> None]

\* The state of a process that has just started with command line cl
ProcessStart(cl) ==
    /\ pc = "start"
    /\ argv = cl
    /\ args = NoArgs
    /\ gpc = "idle"
    /\ length = 0
    /\ include_numbers = FALSE
    /\ include_symbols = FALSE
    /\ character_pool = <<>>
    /\ password = <<>>
    /\ stdout = <<>>
    /\ stderr = <<>>
    /\ file_handle = "none"
    /\ apc = "idle"
    /\ exit_code = NoExit
    /\ calls = 0
    /\ saves = 0

Init ==
    /\ run = 1
    /\ \E cl \in CommandLines : ProcessStart(cl)
    /\ \E f \in InitialFiles :
         fs = [p \in Paths |-> IF p = WritablePath THEN f ELSE Absent]
    /\ fs0 = fs
    /\ fsRun = fs
    /\ log = [p \in Paths |-> <<>>]
    /\ torn = [p \in Paths |-> FALSE]

(* --------------------------- generate_password ------------------------- *)

\* "for _ in range(length)" goes on after i rounds
InRange_inclusive(i, n) ==
    i <= n

InRange(i, n) ==
    i < n

\* Lines 40-43: the pool is built; an empty pool raises ValueError.
GenBuildPool ==
    /\ gpc = "entry"
    /\ character_pool' = build_character_pool(include_numbers, include_symbols)
    /\ gpc' = IF character_pool' = <<>> THEN "raised" ELSE "loop"
    /\ password' = <<>>
    /\ UNCHANGED <<length, include_numbers, include_symbols>>
    /\ UNCHANGED <<pc, argv, args, exit_code, calls, saves>>
    /\ UNCHANGED ioVars
    /\ UNCHANGED histVars

\* Line 44, one round of the generator expression: choice(character_pool),
\* for any value randbelow can give, or for the sampled ones only.
GenChoice(sampled) ==
    /\ gpc = "loop"
    /\ InRange(Len(password), length)
    /\ \E r \in IF sampled THEN SampledRandBelow(Len(character_pool))
                ELSE RandBelow(Len(character_pool)) :
         password' = Append(password, choice(character_pool, r))
    /\ UNCHANGED <<gpc, length, include_numbers, include_symbols, character_pool>>
    /\ UNCHANGED <<pc, argv, args, exit_code, calls, saves>>
    /\ UNCHANGED ioVars
    /\ UNCHANGED histVars

\* Line 44: range(length) is exhausted, the joined string is returned.
GenReturn ==
    /\ gpc = "loop"
    /\ ~InRange(Len(password), length)
    /\ gpc' = "returned"
    /\ UNCHANGED <<length, include_numbers, include_symbols, character_pool, password>>
    /\ UNCHANGED <<pc, argv, args, exit_code, calls, saves>>
    /\ UNCHANGED ioVars
    /\ UNCHANGED histVars

(* ------------------------------ parse_args ----------------------------- *)

\* parse_args(argv): the Namespace, or the exit status of parser.error()
\* when the type function of --length raises ArgumentTypeError.
parse_args(cl) ==
    LET len == IF cl.has_length THEN positive_int(cl.length)
               ELSE [raised |-> "none", value |-> DEFAULT_LENGTH]
    IN  IF len.raised = "none"
        THEN [exit |-> NoExit,
              ns |-> [length |-> len.value, numbers |-> cl.numbers,
                      symbols |-> cl.symbols, save |-> cl.save]]
        ELSE [exit |-> USAGE_ERROR, ns |-> NoArgs]

\* Line 83.  parser.error() prints the usage to standard error and raises
\* SystemExit(2), which leaves main.
MainParseArgs ==
    /\ pc = "start"
    /\ LET r == parse_args(argv)
       IN  IF r.exit = NoExit
           THEN /\ args' = r.ns
                /\ pc' = "parsed"
                /\ UNCHANGED <<stderr, exit_code>>
           ELSE /\ stderr' = Append(stderr, "usage")
                /\ exit_code' = r.exit
                /\ pc' = "exited"
                /\ UNCHANGED args
    /\ UNCHANGED <<argv, calls, saves>>
    /\ UNCHANGED genVars
    /\ UNCHANGED <<stdout, fs, file_handle, apc, log, torn>>
    /\ UNCHANGED histVars

(* --------------------------------- main -------------------------------- *)

\* Line 84: the call of generate_password.
MainCallGenerate ==
    /\ pc = "parsed"
    /\ pc' = "generating"
    /\ gpc' = "entry"
    /\ length' = args.length
    /\ include_numbers' = args.numbers
    /\ include_symbols' = args.symbols
    /\ calls' = calls + 1
    /\ UNCHANGED <<character_pool, password>>
    /\ UNCHANGED <<argv, args, exit_code, saves>>
    /\ UNCHANGED ioVars
    /\ UNCHANGED histVars

\* Line 85 done twice
MainPrint_twice ==
    /\ pc = "generating"
    /\ gpc = "returned"
    /\ stdout' = stdout \o <<password, password>>
    /\ pc' = "printed"
    /\ UNCHANGED <<argv, args, exit_code, calls, saves>>
    /\ UNCHANGED genVars
    /\ UNCHANGED <<stderr, fs, file_handle, apc, log, torn>>
    /\ UNCHANGED histVars

\* Line 85: print(password).
MainPrint ==
    /\ pc = "generating"
    /\ gpc = "returned"
    /\ stdout' = Append(stdout, password)
    /\ pc' = "printed"
    /\ UNCHANGED <<argv, args, exit_code, calls, saves>>
    /\ UNCHANGED genVars
    /\ UNCHANGED <<stderr, fs, file_handle, apc, log, torn>>
    /\ UNCHANGED histVars

\* "if args.save": None and the empty string are false
Truthy(s) ==
    s # None /\ s # ""

\* Lines 86-88: the call of append_password_to_file, or line 92.
MainSave ==
    /\ pc = "printed"
    /\ IF Truthy(args.save)
       THEN /\ pc' = "saving"
            /\ apc' = "entry"
            /\ saves' = saves + 1
            /\ UNCHANGED exit_code
       ELSE /\ pc' = "returned"
            /\ exit_code' = 0
            /\ UNCHANGED <<apc, saves>>
    /\ UNCHANGED <<argv, args, calls>>
    /\ UNCHANGED genVars
    /\ UNCHANGED <<stdout, stderr, fs, file_handle, log, torn>>
    /\ UNCHANGED histVars

(* ----------------------- append_password_to_file ----------------------- *)

\* open(file_path, "w"): the file is created or emptied
open_truncate(file) ==
    [exists |-> TRUE, data |-> <<>>]

\* open(file_path, "a"): the file is created if absent, its bytes are kept
open_append(file) ==
    [exists |-> TRUE, data |-> file.data]

\* The text line 50 writes: password + "\n"
written_text(pw) ==
    pw \o <<NEWLINE>>

\* The operating system lets the process open the path for appending
CanOpen(path) ==
    path = WritablePath

\* Line 49: open(file_path, "a") gives a handle or raises OSError.
AppendOpen ==
    /\ apc = "entry"
    /\ IF CanOpen(args.save)
       THEN /\ fs' = [fs EXCEPT ![args.save] = open_append(@)]
            /\ file_handle' = "open"
            /\ apc' = "opened"
       ELSE /\ apc' = "raised"
            /\ UNCHANGED <<fs, file_handle>>
    /\ UNCHANGED <<pc, argv, args, exit_code, calls, saves>>
    /\ UNCHANGED genVars
    /\ UNCHANGED <<stdout, stderr, log, torn>>
    /\ UNCHANGED histVars

\* Line 50: the text reaches the end of the file, or the write fails with
\* OSError (a full disk) after some proper prefix of the text reached it.
AppendWrite ==
    /\ apc = "opened"
    /\ LET text == written_text(password)
       IN  \/ /\ fs' = [fs EXCEPT ![args.save].data = @ \o text]
              /\ apc' = "written"
              /\ UNCHANGED torn
           \/ /\ \E k \in 0..(Len(text) - 1) :
                   fs' = [fs EXCEPT ![args.save].data = @ \o SubSeq(text, 1, k)]
              /\ apc' = "write_failed"
              /\ torn' = [torn EXCEPT ![args.save] = TRUE]
    /\ UNCHANGED <<pc, argv, args, exit_code, calls, saves>>
    /\ UNCHANGED genVars
    /\ UNCHANGED <<stdout, stderr, file_handle, log>>
    /\ UNCHANGED histVars

\* The with statement closing the handle only when its body did not raise
AppendExit_leak ==
    /\ apc \in {"written", "write_failed"}
    /\ file_handle' = IF apc = "written" THEN "closed" ELSE file_handle
    /\ apc' = IF apc = "written" THEN "returned" ELSE "raised"
    /\ UNCHANGED <<pc, argv, args, exit_code, calls, saves>>
    /\ UNCHANGED genVars
    /\ UNCHANGED <<stdout, stderr, fs, log, torn>>
    /\ UNCHANGED histVars

\* Line 49, the end of the with statement: the handle is closed, then the
\* function returns or the OSError of the write goes on to the caller.
AppendExit ==
    /\ apc \in {"written", "write_failed"}
    /\ file_handle' = "closed"
    /\ apc' = IF apc = "written" THEN "returned" ELSE "raised"
    /\ UNCHANGED <<pc, argv, args, exit_code, calls, saves>>
    /\ UNCHANGED genVars
    /\ UNCHANGED <<stdout, stderr, fs, log, torn>>
    /\ UNCHANGED histVars

(* ---------------------------- main, the end ---------------------------- *)

\* An except clause that does not match OSError
Catches_nothing(exception) ==
    FALSE

\* Line 89: except OSError
Catches(exception) ==
    exception = "OSError"

\* Line 92: the save returned, main returns 0.  (History: the line this
\* run printed joins the log of the path.)
MainSaved ==
    /\ pc = "saving"
    /\ apc = "returned"
    /\ pc' = "returned"
    /\ exit_code' = 0
    /\ log' = [log EXCEPT ![args.save] = @ \o stdout]
    /\ UNCHANGED <<argv, args, calls, saves>>
    /\ UNCHANGED genVars
    /\ UNCHANGED <<stdout, stderr, fs, file_handle, apc, torn>>
    /\ UNCHANGED histVars

\* Lines 89-91: the OSError is caught, reported on standard error, and main
\* returns 1.  An exception the clause does not match leaves main.
MainExcept ==
    /\ pc = "saving"
    /\ apc = "raised"
    /\ IF Catches("OSError")
       THEN /\ stderr' = Append(stderr, "Failed to save password")
            /\ pc' = "returned"
       ELSE /\ pc' = "raised"
            /\ UNCHANGED stderr
    /\ exit_code' = 1
    /\ UNCHANGED <<argv, args, calls, saves>>
    /\ UNCHANGED genVars
    /\ UNCHANGED <<stdout, fs, file_handle, apc, log, torn>>
    /\ UNCHANGED histVars

\* The process has ended: main returned, SystemExit or an exception left it
Ended ==
    pc \in {"returned", "exited", "raised"}

\* Line 96, once more: the program is started again, on the same file system.
NewRun ==
    /\ Ended
    /\ run < MaxRuns
    /\ run' = run + 1
    /\ pc' = "start"
    /\ argv' \in CommandLines
    /\ args' = NoArgs
    /\ gpc' = "idle"
    /\ length' = 0
    /\ include_numbers' = FALSE
    /\ include_symbols' = FALSE
    /\ character_pool' = <<>>
    /\ password' = <<>>
    /\ stdout' = <<>>
    /\ stderr' = <<>>
    /\ file_handle' = "none"
    /\ apc' = "idle"
    /\ exit_code' = NoExit
    /\ calls' = 0
    /\ saves' = 0
    /\ fsRun' = fs
    /\ UNCHANGED <<fs, fs0, log, torn>>

(* ---------------------------- specifications --------------------------- *)

Next ==
    \/ MainParseArgs
    \/ MainCallGenerate
    \/ GenBuildPool
    \/ GenChoice(TRUE)
    \/ GenReturn
    \/ MainPrint
    \/ MainSave
    \/ AppendOpen
    \/ AppendWrite
    \/ AppendExit
    \/ MainSaved
    \/ MainExcept
    \/ NewRun

Spec ==
    Init /\ [][Next]_vars

\* generate_password(length, include_numbers, include_symbols) called by a
\* library caller: any length in -MaxLen..MaxLen, any flags.
InitGen ==
    /\ run = 1
    /\ pc = "direct"
    /\ argv = [has_length |-> FALSE, length |-> <<>>, numbers |-> FALSE,
               symbols |-> FALSE, save |-> None]
    /\ args = NoArgs
    /\ gpc = "entry"
    /\ length \in (-MaxLen)..MaxLen
    /\ include_numbers \in BOOLEAN
    /\ include_symbols \in BOOLEAN
    /\ character_pool = <<>>
    /\ password = <<>>
    /\ stdout = <<>>
    /\ stderr = <<>>
    /\ fs = [p \in Paths |-> Absent]
    /\ file_handle = "none"
    /\ apc = "idle"
    /\ exit_code = NoExit
    /\ calls = 1
    /\ saves = 0
    /\ fs0 = fs
    /\ fsRun = fs
    /\ log = [p \in Paths |-> <<>>]
    /\ torn = [p \in Paths |-> FALSE]

NextGen ==
    \/ GenBuildPool
    \/ GenChoice(FALSE)
    \/ GenReturn

SpecGen ==
    InitGen /\ [][NextGen]_vars

(* ---------------------------- character classes ------------------------ *)

Range(seq) ==
    {seq[i] : i \in 1..Len(seq)}

IsLetter(c) ==
    c \in 65..90 \/ c \in 97..122

IsDigit(c) ==
    c \in 48..57

\* Printable ASCII that is neither a letter, a digit nor the space
IsPunctuation(c) ==
    c \in 33..126 /\ ~IsLetter(c) /\ ~IsDigit(c)

NoRepeat(seq) ==
    Cardinality(Range(seq)) = Len(seq)

\* The characters of the pool build_character_pool returns, by flags
PoolCharacters ==
    [n \in BOOLEAN |-> [s \in BOOLEAN |-> Range(build_character_pool(n, s))]]

\* The lines the passwords pws make in a file, one password per line
RECURSIVE Lines(_)
Lines(pws) ==
    IF pws = <<>> THEN <<>>
    ELSE Head(pws) \o <<NEWLINE>> \o Lines(Tail(pws))

\* The text given to --length is 0, negative or no integer
InvalidLength(text) ==
    int(text).raised = "ValueError" \/ int(text).value < 1

(* -------------------------------- claims ------------------------------- *)

\* C1: for every length L >= 1 and every combination of the flags,
\* generate_password returns a string of exactly L characters, whatever
\* values the random source gives.
C1_ExactLength ==
    (gpc = "returned" /\ length >= 1) => Len(password) = length

C1_Witness ==
    /\ gpc = "returned"
    /\ length = MaxLen
    /\ Len(password) = MaxLen
    /\ password[1] # password[MaxLen]

\* C2: every character of the password is a member of the pool that
\* build_character_pool returns for the same flags; without the numbers flag
\* no digit appears, without the symbols flag no punctuation appears, and
\* without both only letters appear.
C2_CharactersFromPool ==
    gpc \in {"loop", "returned"} =>
        LET pool == PoolCharacters[include_numbers][include_symbols]
        IN  \A i \in 1..Len(password) :
                /\ password[i] \in pool
                /\ ~include_numbers => ~IsDigit(password[i])
                /\ ~include_symbols => ~IsPunctuation(password[i])
                /\ (~include_numbers /\ ~include_symbols) => IsLetter(password[i])

C2_Witness ==
    /\ gpc = "returned"
    /\ ~include_numbers
    /\ include_symbols
    /\ Len(password) = MaxLen
    /\ IsPunctuation(password[1])
    /\ IsLetter(password[MaxLen])

\* C3: generate_password never returns a password for a length below 1 (it
\* fails with an input error instead).
C3_RejectsLengthBelowOne ==
    length < 1 => gpc # "returned"

\* C4: a --length text that is 0, negative or no integer is rejected before
\* generation: generate_password is never called, nothing is printed to
\* standard output, no file is opened or written even with --save, and the
\* process ends with a non-zero exit status.
C4_InvalidLengthRejected ==
    (argv.has_length /\ InvalidLength(argv.length)) =>
        /\ pc \in {"start", "exited"}
        /\ pc = "exited" => (exit_code # 0 /\ exit_code # NoExit)
        /\ calls = 0
        /\ gpc = "idle"
        /\ stdout = <<>>
        /\ saves = 0
        /\ file_handle = "none"
        /\ fs = fsRun

C4_Witness ==
    /\ pc = "exited"
    /\ argv.length \in {<<"0">>, <<"-", "1">>, <<"1", "x">>}
    /\ argv.save = WritablePath
    /\ exit_code = USAGE_ERROR
    /\ run = MaxRuns
    /\ fs[WritablePath].data # <<>>

\* A run that has saved without error
SavedRun ==
    pc = "returned" /\ saves = 1 /\ exit_code = 0

\* C5: a run with --save FILE that saves without error appends exactly one
\* line to FILE, the password the run printed followed by a newline, keeps
\* every earlier byte of FILE (creating FILE if absent) and touches no other
\* file; after n such runs on a path no write to which has failed, FILE is
\* its initial content followed by the n printed passwords, one per line, in
\* run order.
C5_AppendsOneLine ==
    /\ SavedRun =>
         /\ Len(stdout) = 1
         /\ fs[args.save].exists
         /\ fs[args.save].data = fsRun[args.save].data \o stdout[1] \o <<NEWLINE>>
         /\ \A p \in Paths \ {args.save} : fs[p] = fsRun[p]
    /\ (Ended \/ pc = "start") =>
         \A p \in Paths :
            ~torn[p] => fs[p].data = fs0[p].data \o Lines(log[p])

C5_Witness ==
    /\ SavedRun
    /\ run = MaxRuns
    /\ args.save = WritablePath
    /\ fs0[WritablePath].data # <<>>
    /\ Len(log[WritablePath]) = MaxRuns
    /\ log[WritablePath][1] # log[WritablePath][MaxRuns]
    /\ ~torn[WritablePath]

\* C6: in a run with valid arguments the exit code is 1 exactly when a save
\* was attempted and failed with an I/O error, and 0 in every other case;
\* the I/O error never leaves main as an exception.
C6_ExitCode ==
    /\ pc # "raised"
    /\ pc = "returned" =>
         /\ exit_code \in {0, 1}
         /\ exit_code = 1 <=> (saves = 1 /\ apc = "raised")
    /\ pc \notin {"returned", "exited"} => exit_code = NoExit

C6_Witness ==
    /\ pc = "returned"
    /\ exit_code = 1
    /\ args.save = UnwritablePath
    /\ apc = "raised"
    /\ file_handle = "none"

\* C7: in a run with valid arguments the password is printed exactly once
\* and before the save is attempted; the error message and exit code 1 of a
\* failed save come after the password was printed, and the save is
\* attempted at most once.
C7_PrintedOnceBeforeSave ==
    /\ saves <= 1
    /\ Len(stdout) <= 1
    /\ stdout # <<>> => stdout = <<password>>
    /\ (saves = 1 \/ stderr # <<>> \/ exit_code = 1 \/ pc = "returned" \/ apc # "idle") =>
         (pc = "exited" \/ Len(stdout) = 1)
    /\ pc \in {"start", "parsed", "generating"} => (stdout = <<>> /\ saves = 0)

C7_Witness ==
    /\ pc = "returned"
    /\ exit_code = 1
    /\ stderr = <<"Failed to save password">>
    /\ Len(stdout) = 1
    /\ Len(stdout[1]) = MaxLen
    /\ saves = 1

\* C8: build_character_pool returns the 52 ASCII letters, then the 10 ASCII
\* digits if include_numbers, then the 32 ASCII punctuation characters if
\* include_symbols; the pool is never empty, is exactly the letters with
\* both flags off, and with a flag on strictly contains the pool with that
\* flag off.  (Stated of the pool as line 40 has just received it.)
C8_PoolContents ==
    (gpc = "loop" /\ password = <<>>) =>
        LET n == IF include_numbers THEN 10 ELSE 0
            m == IF include_symbols THEN 32 ELSE 0
            pool == character_pool
        IN  /\ pool # <<>>
            /\ Len(pool) = 52 + n + m
            /\ NoRepeat(pool)
            /\ \A i \in 1..52 : IsLetter(pool[i])
            /\ \A i \in 1..26 : pool[i] = 96 + i /\ pool[26 + i] = 64 + i
            /\ \A i \in 1..n : pool[52 + i] = 47 + i
            /\ \A i \in 1..m : IsPunctuation(pool[52 + n + i])
            /\ (n = 0 /\ m = 0) => Range(pool) = {c \in 0..127 : IsLetter(c)}
            /\ m = 32 => {c \in 0..127 : IsPunctuation(c)} \subseteq Range(pool)
            /\ n = 10 =>
                 /\ PoolCharacters[FALSE][include_symbols] \subseteq Range(pool)
                 /\ PoolCharacters[FALSE][include_symbols] # Range(pool)
            /\ m = 32 =>
                 /\ PoolCharacters[include_numbers][FALSE] \subseteq Range(pool)
                 /\ PoolCharacters[include_numbers][FALSE] # Range(pool)

C8_Witness ==
    /\ gpc = "loop"
    /\ password = <<>>
    /\ include_numbers
    /\ include_symbols
    /\ Len(character_pool) = 94
    /\ character_pool[53] = 48
    /\ character_pool[94] = 126

\* C10: the handle append_password_to_file opened is released on every exit
\* path: once the function has returned or raised, also when the write
\* failed after the open, the handle is closed, and none is open when main
\* has returned.
C10_HandleReleased ==
    /\ apc \in {"returned", "raised"} => file_handle # "open"
    /\ Ended => file_handle # "open"
    /\ file_handle = "open" <=> apc \in {"opened", "written", "write_failed"}

C10_Witness ==
    /\ pc = "returned"
    /\ apc = "raised"
    /\ torn[WritablePath]
    /\ file_handle = "closed"
    /\ exit_code = 1

=============================================================================
